---- MODULE Spec2Model ----
(***************************************************************************)
(* A model of the basic-cli shell: Parser (src/src/parser.py), the command *)
(* handlers and CommandRegistry (src/src/commands.py), Executor            *)
(* (src/src/executor.py) and the session loop CLIManager                   *)
(* (src/src/manager.py).                                                   *)
(*                                                                         *)
(* Text is a sequence of one-character strings.  The filesystem and the    *)
(* outcome of spawning an external process are the environment.            *)
(***************************************************************************)
EXTENDS Integers, Sequences, FiniteSets, TLC

VARIABLES
    pc,           \* position of CLIManager.start: "init", "loop" or "done"
    is_running,   \* CLIManager.is_running
    has_dir,      \* whether the CLIManager object has an attribute current_dir
    current_dir,  \* CLIManager.current_dir, meaningful when has_dir
    cwd,          \* the process working directory (os.getcwd / os.chdir)
    out,          \* everything printed to standard output, in order
    hist,         \* one record per input line read by _get_input
    input,        \* the last string given to Parser.parse
    parsed        \* what Parser.parse did with it

vars == <<pc, is_running, has_dir, current_dir, cwd, out, hist, input, parsed>>

(***************************************************************************)
(* Bounds                                                                  *)
(***************************************************************************)
\* longest line given to the parser in ParserSpec
MaxLen == 6
\* most input lines read in one session
MaxLines == 2

(***************************************************************************)
(* Characters and text                                                     *)
(***************************************************************************)
SP == " "
SQ == "'"
DQ == "\""
BS == "\\"
SLASH == "/"

\* shlex.whitespace, restricted to the blank
IsWhitespace(c) == c = SP
\* shlex.quotes
IsQuote(c) == c \in {SQ, DQ}

RECURSIVE LStrip(_)
LStrip(s) == IF s # <<>> /\ IsWhitespace(Head(s)) THEN LStrip(Tail(s)) ELSE s

RECURSIVE RStrip(_)
RStrip(s) ==
    IF s # <<>> /\ IsWhitespace(s[Len(s)]) THEN RStrip(SubSeq(s, 1, Len(s) - 1)) ELSE s

\* str.strip()
Strip(s) == RStrip(LStrip(s))

(***************************************************************************)
(* shlex.split(input): the POSIX-mode lexer of the standard library with   *)
(* whitespace_split set and no comment characters.  The lexer state is     *)
(* "ws" (between tokens), "a" (in a word), a quote character, or BS (after *)
(* an escape character); esc is the state to return to after an escape.    *)
(***************************************************************************)
RECURSIVE Lex(_, _, _, _, _, _, _)
Lex(s, i, st, esc, tok, quoted, acc) ==
    IF i > Len(s) THEN
        IF IsQuote(st) THEN [err |-> "No closing quotation", tokens |-> <<>>]
        ELSE IF st = BS THEN [err |-> "No escaped character", tokens |-> <<>>]
        ELSE [err |-> "",
              tokens |-> IF tok # <<>> \/ quoted THEN Append(acc, tok) ELSE acc]
    ELSE LET c == s[i] IN
        IF st = "ws" THEN
            IF IsWhitespace(c) THEN Lex(s, i + 1, "ws", esc, tok, quoted, acc)
            ELSE IF c = BS THEN Lex(s, i + 1, BS, "a", tok, quoted, acc)
            ELSE IF IsQuote(c) THEN Lex(s, i + 1, c, esc, tok, TRUE, acc)
            ELSE Lex(s, i + 1, "a", esc, <<c>>, quoted, acc)
        ELSE IF IsQuote(st) THEN
            IF c = st THEN Lex(s, i + 1, "a", esc, tok, TRUE, acc)
            ELSE IF c = BS /\ st = DQ THEN Lex(s, i + 1, BS, st, tok, TRUE, acc)
            ELSE Lex(s, i + 1, st, esc, Append(tok, c), TRUE, acc)
        ELSE IF st = BS THEN
            IF IsQuote(esc) /\ c # BS /\ c # esc
            THEN Lex(s, i + 1, esc, esc, tok \o <<BS, c>>, quoted, acc)
            ELSE Lex(s, i + 1, esc, esc, Append(tok, c), quoted, acc)
        ELSE \* st = "a"
            IF IsWhitespace(c) THEN
                IF tok # <<>> \/ quoted
                THEN Lex(s, i + 1, "ws", " ", <<>>, FALSE, Append(acc, tok))
                ELSE Lex(s, i + 1, "ws", esc, tok, quoted, acc)
            ELSE IF IsQuote(c) THEN Lex(s, i + 1, c, esc, tok, TRUE, acc)
            ELSE IF c = BS THEN Lex(s, i + 1, BS, "a", tok, quoted, acc)
            ELSE Lex(s, i + 1, st, esc, Append(tok, c), quoted, acc)

shlex_split(s) == Lex(s, 1, "ws", " ", <<>>, FALSE, <<>>)

(***************************************************************************)
(* Parser                                                                  *)
(***************************************************************************)
ParsedCommand(command_name, args) == [command_name |-> command_name, args |-> args]

NoCommand == ParsedCommand(<<>>, <<>>)

\* CommandOf taking the last token as the name: args.pop() for args.pop(0)
CommandOf_PopLast(r) ==
    IF r.err # "" THEN [raised |-> "ValueError", msg |-> r.err, command |-> NoCommand]
    ELSE IF Len(r.tokens) = 0
    THEN [raised |-> "ParseError", msg |-> "Empty command", command |-> NoCommand]
    ELSE [raised |-> "", msg |-> "",
          command |-> ParsedCommand(r.tokens[Len(r.tokens)],
                                    SubSeq(r.tokens, 1, Len(r.tokens) - 1))]

\* Parser._parse_command after shlex.split gave r: raised is "" when a
\* ParsedCommand is returned
CommandOf(r) ==
    IF r.err # "" THEN [raised |-> "ValueError", msg |-> r.err, command |-> NoCommand]
    ELSE IF Len(r.tokens) = 0
    THEN [raised |-> "ParseError", msg |-> "Empty command", command |-> NoCommand]
    ELSE [raised |-> "", msg |-> "",
          command |-> ParsedCommand(Head(r.tokens), Tail(r.tokens))]

Parser_parse_command(s) == CommandOf(shlex_split(s))

\* ParsedInput(commands=[c]), or the exception c raised
ParsedInput(c) ==
    [raised |-> c.raised, msg |-> c.msg,
     commands |-> IF c.raised = "" THEN <<c.command>> ELSE <<>>]

\* Parser.parse: a ParsedInput holding the one command, or the exception
Parser_parse(s) == ParsedInput(Parser_parse_command(s))

NotParsed == [raised |-> "unparsed", msg |-> "", commands |-> <<>>]

(***************************************************************************)
(* Paths: os.path.isabs, os.path.join, os.path.normpath (posixpath)        *)
(***************************************************************************)
RECURSIVE SplitFrom(_, _, _, _)
SplitFrom(s, i, cur, acc) ==
    IF i > Len(s) THEN Append(acc, cur)
    ELSE IF s[i] = SLASH THEN SplitFrom(s, i + 1, <<>>, Append(acc, cur))
    ELSE SplitFrom(s, i + 1, Append(cur, s[i]), acc)

\* path.split('/')
SplitPath(s) == SplitFrom(s, 1, <<>>, <<>>)

RECURSIVE JoinPath(_)
\* '/'.join(comps)
JoinPath(comps) ==
    IF comps = <<>> THEN <<>>
    ELSE IF Len(comps) = 1 THEN comps[1]
    ELSE comps[1] \o <<SLASH>> \o JoinPath(Tail(comps))

isabs(p) == p # <<>> /\ p[1] = SLASH

path_join(a, b) ==
    IF isabs(b) THEN b
    ELSE IF a = <<>> \/ a[Len(a)] = SLASH THEN a \o b
    ELSE a \o <<SLASH>> \o b

DOT == <<".">>
DOTDOT == <<".", ".">>

RECURSIVE NormComps(_, _, _, _)
NormComps(comps, i, initial_slashes, new_comps) ==
    IF i > Len(comps) THEN new_comps
    ELSE LET comp == comps[i] IN
        IF comp = <<>> \/ comp = DOT
        THEN NormComps(comps, i + 1, initial_slashes, new_comps)
        ELSE IF comp # DOTDOT
                \/ (initial_slashes = 0 /\ new_comps = <<>>)
                \/ (new_comps # <<>> /\ new_comps[Len(new_comps)] = DOTDOT)
        THEN NormComps(comps, i + 1, initial_slashes, Append(new_comps, comp))
        ELSE IF new_comps # <<>>
        THEN NormComps(comps, i + 1, initial_slashes,
                       SubSeq(new_comps, 1, Len(new_comps) - 1))
        ELSE NormComps(comps, i + 1, initial_slashes, new_comps)

InitialSlashes(path) ==
    IF ~isabs(path) THEN 0
    ELSE IF Len(path) >= 2 /\ path[2] = SLASH /\ ~(Len(path) >= 3 /\ path[3] = SLASH)
    THEN 2
    ELSE 1

OrDot(res) == IF res = <<>> THEN DOT ELSE res

Slashes(n) == IF n = 2 THEN <<SLASH, SLASH>> ELSE IF n = 1 THEN <<SLASH>> ELSE <<>>

normpath(path) ==
    IF path = <<>> THEN DOT
    ELSE OrDot(Slashes(InitialSlashes(path))
               \o JoinPath(NormComps(SplitPath(path), 1, InitialSlashes(path), <<>>)))

(***************************************************************************)
(* The filesystem: a directory is the sequence of names from the root.     *)
(*   /d  /d/s  /h (the home directory)  /p (a directory without search or  *)
(*   read permission)  /d/f (a regular file)  /l (a symbolic link to /d/s) *)
(***************************************************************************)
Root == <<>>
Dirs == {Root, <<"d">>, <<"d", "s">>, <<"h">>, <<"p">>}
Files == {<<"d", "f">>}
NoAccess == {<<"p">>}
LinkAt == <<"l">>
LinkTarget == <<"d", "s">>
FileContent == <<"x", "\n", "y">>
\* os.path.expanduser("~")
Home == <<SLASH, "h">>
\* the directory the process is started in
StartDir == <<"d">>

\* every name of the filesystem, ascending
NameOrder == <<"d", "f", "h", "l", "p", "s">>

RECURSIVE Walk(_, _, _, _)
\* path resolution by the kernel: follow the components from cur
Walk(cur, kind, comps, i) ==
    IF i > Len(comps) THEN [kind |-> kind, path |-> cur]
    ELSE LET c == comps[i] IN
        IF kind # "dir" THEN [kind |-> "none", path |-> cur]
        ELSE IF c = <<>> THEN Walk(cur, kind, comps, i + 1)
        ELSE IF cur \in NoAccess THEN [kind |-> "none", path |-> cur]
        ELSE IF c = DOT THEN Walk(cur, kind, comps, i + 1)
        ELSE IF c = DOTDOT
        THEN Walk(IF cur = Root THEN Root ELSE SubSeq(cur, 1, Len(cur) - 1),
                  kind, comps, i + 1)
        ELSE IF Len(c) # 1 THEN [kind |-> "none", path |-> cur]
        ELSE LET q == Append(cur, c[1]) IN
            IF q \in Dirs THEN Walk(q, "dir", comps, i + 1)
            ELSE IF q = LinkAt THEN Walk(LinkTarget, "dir", comps, i + 1)
            ELSE IF q \in Files THEN Walk(q, "file", comps, i + 1)
            ELSE [kind |-> "none", path |-> cur]

\* what the path names for a process whose working directory is wd
Resolve(wd, path) ==
    IF path = <<>> THEN [kind |-> "none", path |-> Root]
    ELSE Walk(IF isabs(path) THEN Root ELSE wd, "dir", SplitPath(path), 1)

RECURSIVE PathStr(_)
\* os.getcwd(): the text of a directory
PathStr(dir) ==
    IF dir = Root THEN <<SLASH>>
    ELSE IF Len(dir) = 1 THEN <<SLASH, dir[1]>>
    ELSE PathStr(SubSeq(dir, 1, Len(dir) - 1)) \o <<SLASH, dir[Len(dir)]>>

\* os.listdir
listdir(dir) ==
    {n \in {NameOrder[k] : k \in 1..Len(NameOrder)} :
        Append(dir, n) \in Dirs \cup Files \cup {LinkAt}}

(***************************************************************************)
(* Commands.  A handler is given the ParsedCommand, the current_dir        *)
(* argument (None is the empty text: the code only tests its truth), the   *)
(* process working directory wd and the outcome ext of spawning a process. *)
(* Its result: the exception raised ("" when it returns), the exit code,   *)
(* what it printed, the process working directory afterwards, and the      *)
(* value it assigned to manager.current_dir (set_dir tells whether).       *)
(***************************************************************************)
None == <<>>

Line(kind, tag, text, n) == [kind |-> kind, tag |-> tag, text |-> text, n |-> n]
Stdout(text) == Line("stdout", "", text, 0)
Diag(tag, text) == Line("diag", tag, text, 0)

Returns(code, printed, wd) ==
    [raised |-> "", code |-> code, printed |-> printed, cwd |-> wd,
     set_dir |-> FALSE, dir |-> None]
Raises(exc, printed, wd) ==
    [raised |-> exc, code |-> 0, printed |-> printed, cwd |-> wd,
     set_dir |-> FALSE, dir |-> None]

\* the outcomes of subprocess.run(..., check=True): the child ran and exited
\* with rc, the executable was not found, or it could not be started
ChildCodes == {0, 1, 2}
ExtOutcomes ==
    {[kind |-> "ran", rc |-> rc] : rc \in ChildCodes}
        \cup {[kind |-> "FileNotFoundError", rc |-> 0],
              [kind |-> "PermissionError", rc |-> 0]}
ChildStdout == <<"o">>

DigitChar == <<"1", "2", "3", "4", "5", "6", "7", "8", "9">>

RECURSIVE CountChar(_, _)
CountChar(s, c) ==
    IF s = <<>> THEN 0 ELSE (IF Head(s) = c THEN 1 ELSE 0) + CountChar(Tail(s), c)

IsSpace(c) == c \in {SP, "\n"}

\* len(content.split()): the maximal runs of non-whitespace characters
CountWords(s) ==
    Cardinality({i \in 1..Len(s) : ~IsSpace(s[i]) /\ (i = 1 \/ IsSpace(s[i - 1]))})

RECURSIVE JoinWith(_, _)
\* sep.join(parts)
JoinWith(sep, parts) ==
    IF parts = <<>> THEN <<>>
    ELSE IF Len(parts) = 1 THEN parts[1]
    ELSE parts[1] \o sep \o JoinWith(sep, Tail(parts))

CatCommand_execute(self, command, cur_dir, wd, ext) ==
    IF command.args = <<>> THEN Returns(1, <<Diag("Error cat", <<>>)>>, wd)
    ELSE IF Resolve(wd, command.args[1]).kind # "file"
    THEN Returns(1, <<Diag("Error cat", command.args[1])>>, wd)
    ELSE Returns(0, <<Stdout(FileContent)>>, wd)

EchoCommand_execute(self, command, cur_dir, wd, ext) ==
    Returns(0, <<Stdout(JoinWith(<<SP>>, command.args))>>, wd)

\* WcCommand.execute returning 0 after reporting an error
WcCommand_execute_ZeroOnError(self, command, cur_dir, wd, ext) ==
    IF command.args = <<>> THEN Returns(0, <<Diag("Error wc", <<>>)>>, wd)
    ELSE IF Resolve(wd, command.args[1]).kind # "file"
    THEN Returns(0, <<Diag("Error wc", command.args[1])>>, wd)
    ELSE Returns(0, <<Stdout(<<DigitChar[CountChar(FileContent, "\n") + 1], SP,
                               DigitChar[CountWords(FileContent)], SP,
                               DigitChar[Len(FileContent)]>>)>>, wd)

WcCommand_execute(self, command, cur_dir, wd, ext) ==
    IF command.args = <<>> THEN Returns(1, <<Diag("Error wc", <<>>)>>, wd)
    ELSE IF Resolve(wd, command.args[1]).kind # "file"
    THEN Returns(1, <<Diag("Error wc", command.args[1])>>, wd)
    ELSE Returns(0, <<Stdout(<<DigitChar[CountChar(FileContent, "\n") + 1], SP,
                               DigitChar[CountWords(FileContent)], SP,
                               DigitChar[Len(FileContent)]>>)>>, wd)

PwdCommand_execute(self, command, cur_dir, wd, ext) ==
    IF cur_dir # None THEN Returns(0, <<Stdout(cur_dir)>>, wd)
    ELSE Returns(0, <<Stdout(PathStr(wd))>>, wd)

\* ExitCommand.execute returning 0 instead of raising
ExitCommand_execute_Returns(self, command, cur_dir, wd, ext) == Returns(0, <<>>, wd)

ExitCommand_execute(self, command, cur_dir, wd, ext) ==
    Raises("ExitCommandException", <<>>, wd)

\* DefaultCommand.execute returning 1 for every failed child
DefaultCommand_execute_AlwaysOne(self, command, cur_dir, wd, ext) ==
    IF ext.kind = "FileNotFoundError"
    THEN Returns(1, <<Diag("command not found", command.command_name)>>, wd)
    ELSE IF ext.kind = "ran" /\ ext.rc # 0
    THEN Returns(1, <<Diag("error in execution", command.command_name)>>, wd)
    ELSE IF ext.kind = "ran"
    THEN Returns(ext.rc, <<Stdout(ChildStdout)>>, wd)
    ELSE Raises(ext.kind, <<>>, wd)

DefaultCommand_execute(self, command, cur_dir, wd, ext) ==
    IF ext.kind = "FileNotFoundError"
    THEN Returns(1, <<Diag("command not found", command.command_name)>>, wd)
    ELSE IF ext.kind = "ran" /\ ext.rc # 0
    THEN Returns(ext.rc, <<Diag("error in execution", command.command_name)>>, wd)
    ELSE IF ext.kind = "ran"
    THEN Returns(ext.rc, <<Stdout(ChildStdout)>>, wd)
    ELSE Raises(ext.kind, <<>>, wd)

\* the target of cd or ls: a relative argument is resolved against current_dir
\* when one is given
TargetDir(cur_dir, arg) ==
    IF cur_dir # None /\ ~isabs(arg) THEN normpath(path_join(cur_dir, arg)) ELSE arg

\* CdTo testing os.path.exists instead of os.path.isdir: chdir to a regular
\* file then raises, which the handler reports as an exception
CdTo_ExistsOnly(self, target_dir, r, wd) ==
    IF r.kind = "none"
    THEN Returns(1, <<Diag("cd: No such directory", target_dir)>>, wd)
    ELSE IF r.kind = "file" \/ r.path \in NoAccess
    THEN [Returns(1, <<Diag("cd: exception", target_dir)>>, wd)
             EXCEPT !.set_dir = self.has_manager, !.dir = target_dir]
    ELSE [Returns(0, <<>>, r.path)
             EXCEPT !.set_dir = self.has_manager, !.dir = target_dir]

\* CdCommand.execute once target_dir is computed; r is what target_dir names
CdTo(self, target_dir, r, wd) ==
    IF r.kind # "dir"
    THEN Returns(1, <<Diag("cd: No such directory", target_dir)>>, wd)
    ELSE IF r.path \in NoAccess
    THEN [Returns(1, <<Diag("cd: exception", target_dir)>>, wd)
             EXCEPT !.set_dir = self.has_manager, !.dir = target_dir]
    ELSE [Returns(0, <<>>, r.path)
             EXCEPT !.set_dir = self.has_manager, !.dir = target_dir]

CdTarget(command, cur_dir) ==
    TargetDir(cur_dir, IF command.args = <<>> THEN Home ELSE command.args[1])

CdCommand_execute(self, command, cur_dir, wd, ext) ==
    CdTo(self, CdTarget(command, cur_dir),
         Resolve(wd, CdTarget(command, cur_dir)), wd)

\* the entries of a directory, sorted, one line each
Listing(sorted) == [k \in 1..Len(sorted) |-> Stdout(<<sorted[k]>>)]

\* LsOf entering the directory it lists
LsOf_ChangesDirectory(target_dir, r, wd) ==
    IF r.kind # "dir"
    THEN Returns(1, <<Diag("ls: No such directory", target_dir)>>, wd)
    ELSE IF r.path \in NoAccess
    THEN Returns(1, <<Diag("ls: exception", target_dir)>>, wd)
    ELSE Returns(0, Listing(SelectSeq(NameOrder, LAMBDA n : n \in listdir(r.path))), r.path)

\* LsCommand.execute once target_dir is computed; r is what target_dir names
LsOf(target_dir, r, wd) ==
    IF r.kind # "dir"
    THEN Returns(1, <<Diag("ls: No such directory", target_dir)>>, wd)
    ELSE IF r.path \in NoAccess
    THEN Returns(1, <<Diag("ls: exception", target_dir)>>, wd)
    ELSE Returns(0, Listing(SelectSeq(NameOrder, LAMBDA n : n \in listdir(r.path))), wd)

LsTarget(command, cur_dir, wd) ==
    IF command.args = <<>>
    THEN (IF cur_dir # None THEN cur_dir ELSE PathStr(wd))
    ELSE TargetDir(cur_dir, command.args[1])

LsCommand_execute(self, command, cur_dir, wd, ext) ==
    LsOf(LsTarget(command, cur_dir, wd), Resolve(wd, LsTarget(command, cur_dir, wd)), wd)

(***************************************************************************)
(* CommandRegistry                                                         *)
(***************************************************************************)
N_cat == <<"c", "a", "t">>
N_echo == <<"e", "c", "h", "o">>
N_wc == <<"w", "c">>
N_pwd == <<"p", "w", "d">>
N_exit == <<"e", "x", "i", "t">>
N_cd == <<"c", "d">>
N_ls == <<"l", "s">>

\* CommandRegistry._commands
Registry_commands ==
    [n \in {N_cat, N_echo, N_wc, N_pwd, N_exit, N_cd, N_ls} |->
        CASE n = N_cat -> "CatCommand"
          [] n = N_echo -> "EchoCommand"
          [] n = N_wc -> "WcCommand"
          [] n = N_pwd -> "PwdCommand"
          [] n = N_exit -> "ExitCommand"
          [] n = N_cd -> "CdCommand"
          [] n = N_ls -> "LsCommand"]

\* CommandRegistry.get_command: a new instance of the class registered for the
\* name, DefaultCommand for any other name; a new instance has no manager
CommandRegistry_get_command(name) ==
    [cls |-> IF name \in DOMAIN Registry_commands
             THEN Registry_commands[name] ELSE "DefaultCommand",
     has_manager |-> FALSE]

\* cmd_obj.execute(command=command, current_dir=current_dir)
Command_execute(self, command, cur_dir, wd, ext) ==
    CASE self.cls = "CatCommand" -> CatCommand_execute(self, command, cur_dir, wd, ext)
      [] self.cls = "EchoCommand" -> EchoCommand_execute(self, command, cur_dir, wd, ext)
      [] self.cls = "WcCommand" -> WcCommand_execute(self, command, cur_dir, wd, ext)
      [] self.cls = "PwdCommand" -> PwdCommand_execute(self, command, cur_dir, wd, ext)
      [] self.cls = "ExitCommand" -> ExitCommand_execute(self, command, cur_dir, wd, ext)
      [] self.cls = "CdCommand" -> CdCommand_execute(self, command, cur_dir, wd, ext)
      [] self.cls = "LsCommand" -> LsCommand_execute(self, command, cur_dir, wd, ext)
      [] OTHER -> DefaultCommand_execute(self, command, cur_dir, wd, ext)

(***************************************************************************)
(* Executor                                                                *)
(***************************************************************************)
\* the effects of the commands run so far, acc, followed by those of r
After(acc, r) ==
    [r EXCEPT !.printed = acc.printed \o r.printed,
              !.set_dir = acc.set_dir \/ r.set_dir,
              !.dir = IF r.set_dir THEN r.dir ELSE acc.dir]

\* the command's handler, looked up and run
RunCommand(command, cur_dir, wd, ext) ==
    Command_execute(CommandRegistry_get_command(command.command_name),
                    command, cur_dir, wd, ext)

RECURSIVE ExecuteFrom(_, _, _, _, _, _)
\* the loop of Executor.execute from command i on, acc being the result so far
ExecuteFrom(commands, i, cur_dir, ext, acc, cls) ==
    IF i > Len(commands) \/ acc.raised # "" THEN [res |-> acc, cls |-> cls]
    ELSE ExecuteFrom(commands, i + 1, cur_dir, ext,
                     After(acc, RunCommand(commands[i], cur_dir, acc.cwd, ext)),
                     CommandRegistry_get_command(commands[i].command_name).cls)

\* Executor.execute(commands, current_dir): res is the result, cls the class of
\* the last handler that ran
Executor_execute(commands, cur_dir, wd, ext) ==
    ExecuteFrom(commands, 1, cur_dir, ext, Returns(0, <<>>, wd), "")

(***************************************************************************)
(* CLIManager                                                              *)
(***************************************************************************)
\* CLIManager._process_command(input): parse, then Executor.execute with no
\* current_dir argument (its default, None)
ProcessParsed(parsed_input, wd, ext) ==
    IF parsed_input.raised # ""
    THEN [res |-> Raises(parsed_input.raised, <<>>, wd), cls |-> ""]
    ELSE IF parsed_input.commands = <<>>
    THEN [res |-> Returns(0, <<>>, wd), cls |-> ""]
    ELSE Executor_execute(parsed_input.commands, None, wd, ext)

CLIManager_process_command(s, wd, ext) == ProcessParsed(Parser_parse(s), wd, ext)

\* the lines the user may type
SessionLines ==
    { <<>>,
      <<" ">>,
      <<"e", "x", "i", "t">>,
      <<"e", "x", "i", "t", " ", "x">>,
      <<"c", "d">>,
      <<"c", "d", " ", "s">>,
      <<"c", "d", " ", "/", "l">>,
      <<"c", "d", " ", ".", ".">>,
      <<"c", "d", " ", "f">>,
      <<"c", "d", " ", "/", "p">>,
      <<" ", "p", "w", "d">>,
      <<"l", "s">>,
      <<"l", "s", " ", "s">>,
      <<"c", "a", "t", " ", "f">>,
      <<"w", "c">>,
      <<"w", "c", " ", "f">>,
      <<"e", "c", "h", "o", " ", "a">>,
      <<"f", "o", "o">>,
      <<"'">>,
      <<"'", "'">> }

NoSpawn == [kind |-> "none", rc |-> 0]

\* whether running the line reaches subprocess.run
SpawnsParsed(p) ==
    /\ p.raised = ""
    /\ CommandRegistry_get_command(p.commands[1].command_name).cls = "DefaultCommand"

Spawns(s) == SpawnsParsed(Parser_parse(s))

ExtFor(s) == IF Spawns(s) THEN ExtOutcomes ELSE {NoSpawn}

Tag(printed, src) ==
    [k \in 1..Len(printed) |->
        [src |-> src, kind |-> printed[k].kind, tag |-> printed[k].tag,
         text |-> printed[k].text, n |-> printed[k].n]]

Notice(src, tag) == [src |-> src, kind |-> "notice", tag |-> tag, text |-> <<>>, n |-> 0]
ErrorLine(src, exc) == [src |-> src, kind |-> "Error", tag |-> exc, text |-> <<>>, n |-> 0]
ExitCodeLine(src, code) ==
    [src |-> src, kind |-> "ExitCode", tag |-> "", text |-> <<>>, n |-> code]

Entry(raw, outcome, code, cls, ext) ==
    [raw |-> raw, outcome |-> outcome, code |-> code, cls |-> cls, ext |-> ext,
     cwd_before |-> cwd]

Init ==
    /\ pc = "init"
    /\ is_running = FALSE
    /\ has_dir = FALSE
    /\ current_dir = None
    /\ cwd = StartDir
    /\ out = <<>>
    /\ hist = <<>>
    /\ input = <<>>
    /\ parsed = NotParsed

\* CLIManager.start, up to the loop
Start ==
    /\ pc = "init"
    /\ is_running' = TRUE
    /\ pc' = "loop"
    /\ UNCHANGED <<has_dir, current_dir, cwd, out, hist, input, parsed>>

\* IterationTail printing an exit code after the Error line too
IterationTail_ExitCodeAfterError(src, r) ==
    IF r.raised = "ExitCommandException" THEN <<Notice(src, "exit received")>>
    ELSE IF r.raised # "" THEN <<ErrorLine(src, r.raised), ExitCodeLine(src, 1)>>
    ELSE <<ExitCodeLine(src, r.code)>>

\* what the iteration prints after the handler's own output
IterationTail(src, r) ==
    IF r.raised = "ExitCommandException" THEN <<Notice(src, "exit received")>>
    ELSE IF r.raised # "" THEN <<ErrorLine(src, r.raised)>>
    ELSE <<ExitCodeLine(src, r.code)>>

Outcome(r) ==
    IF r.raised = "ExitCommandException" THEN "exit"
    ELSE IF r.raised # "" THEN "error" ELSE "returned"

\* NextPc with every exception breaking the loop
NextPc_AnyExceptionBreaks(r) == IF r.raised # "" THEN "done" ELSE "loop"

\* where the loop goes after _process_command: only ExitCommandException breaks it
NextPc(r) == IF r.raised = "ExitCommandException" THEN "done" ELSE "loop"

\* the iteration for the non-empty stripped line s, e being what
\* _process_command did
Iterate(raw, s, ext, e, src) ==
    /\ input' = s
    /\ parsed' = Parser_parse(s)
    /\ cwd' = e.res.cwd
    /\ has_dir' = (has_dir \/ e.res.set_dir)
    /\ current_dir' = IF e.res.set_dir THEN e.res.dir ELSE current_dir
    /\ out' = out \o Tag(e.res.printed, src) \o IterationTail(src, e.res)
    /\ hist' = Append(hist, Entry(raw, Outcome(e.res), e.res.code, e.cls, ext))
    /\ pc' = NextPc(e.res)
    /\ UNCHANGED is_running

\* the iteration for the line raw as _get_input returns it, stripped to s
IterateLine(raw, s) ==
    IF s = <<>>
    THEN /\ hist' = Append(hist, Entry(raw, "blank", 0, "", NoSpawn))
         /\ UNCHANGED <<pc, is_running, has_dir, current_dir, cwd, out, input, parsed>>
    ELSE \E ext \in ExtFor(s) :
            Iterate(raw, s, ext, CLIManager_process_command(s, cwd, ext), Len(hist) + 1)

\* one iteration of the loop of CLIManager.start in which _get_input returns
\* a line
ReadLine ==
    /\ pc = "loop"
    /\ is_running
    /\ Len(hist) < MaxLines
    /\ \E raw \in SessionLines : IterateLine(raw, Strip(raw))

\* an iteration in which input() raises EOFError: _stop, then the loop ends
ReadEOF ==
    /\ pc = "loop"
    /\ is_running
    /\ is_running' = FALSE
    /\ out' = Append(out, Notice(0, "Session terminated"))
    /\ pc' = "done"
    /\ UNCHANGED <<has_dir, current_dir, cwd, hist, input, parsed>>

\* KeyboardInterrupt while input() waits
Interrupt ==
    /\ pc = "loop"
    /\ is_running
    /\ out' = Append(out, Notice(0, "Interrupt received"))
    /\ pc' = "done"
    /\ UNCHANGED <<is_running, has_dir, current_dir, cwd, hist, input, parsed>>

\* the iteration for the stripped line s stopped by KeyboardInterrupt
Interrupted(raw, s, ext, e, src, applied) ==
    /\ applied => e.res.raised = ""
    /\ input' = s
    /\ parsed' = IF applied THEN Parser_parse(s) ELSE parsed
    /\ cwd' = IF applied THEN e.res.cwd ELSE cwd
    /\ has_dir' = (has_dir \/ (applied /\ e.res.set_dir))
    /\ current_dir' = IF applied /\ e.res.set_dir THEN e.res.dir ELSE current_dir
    /\ out' = out \o (IF applied THEN Tag(e.res.printed, src) ELSE <<>>)
                  \o <<Notice(src, "Interrupt received")>>
    /\ hist' = Append(hist, Entry(raw, "interrupted", 0,
                                  IF applied THEN e.cls ELSE "",
                                  IF applied THEN ext ELSE NoSpawn))
    /\ pc' = "done"
    /\ UNCHANGED is_running

InterruptedLine(raw, s, applied) ==
    /\ s # <<>>
    /\ \E ext \in ExtFor(s) :
        Interrupted(raw, s, ext, CLIManager_process_command(s, cwd, ext),
                    Len(hist) + 1, applied)

\* KeyboardInterrupt while a line is processed: before the handler has had any
\* effect, or after it returned and before the exit code is printed
InterruptCommand ==
    /\ pc = "loop"
    /\ is_running
    /\ Len(hist) < MaxLines
    /\ \E raw \in SessionLines, applied \in BOOLEAN :
        InterruptedLine(raw, Strip(raw), applied)

Next == Start \/ ReadLine \/ ReadEOF \/ Interrupt \/ InterruptCommand

Spec == Init /\ [][Next]_vars

(***************************************************************************)
(* The parser alone, on every line of at most MaxLen characters            *)
(***************************************************************************)
Alphabet == {"a", "b", SP, SQ, DQ, BS}

LinesUpTo(n) == UNION {[1..k -> Alphabet] : k \in 0..n}

\* a session object just constructed, and a line about to be parsed
ParserInit ==
    /\ pc = "init"
    /\ is_running = FALSE
    /\ has_dir = FALSE
    /\ current_dir = None
    /\ cwd = StartDir
    /\ out = <<>>
    /\ hist = <<>>
    /\ input \in LinesUpTo(MaxLen)
    /\ parsed = NotParsed

\* self.parser.parse(input)
ParseLine ==
    /\ parsed = NotParsed
    /\ parsed' = Parser_parse(input)
    /\ UNCHANGED <<pc, is_running, has_dir, current_dir, cwd, out, hist, input>>

ParserNext == ParseLine

ParserSpec == ParserInit /\ [][ParserNext]_vars

(***************************************************************************)
(* Properties                                                              *)
(***************************************************************************)
LastLine == hist[Len(hist)]
LastOut == out[Len(out)]

\* what was printed for input line i
PrintedFor(o, i) == SelectSeq(o, LAMBDA l : l.src = i)
OutOf(i) == PrintedFor(out, i)
DiagLine(src, tag, text) ==
    [src |-> src, kind |-> "diag", tag |-> tag, text |-> text, n |-> 0]
ExitCodesOf(i) == SelectSeq(out, LAMBDA l : l.src = i /\ l.kind = "ExitCode")
DiagnosticsOf(i) == SelectSeq(out, LAMBDA l : l.src = i /\ l.kind \in {"diag", "Error"})

Builtins == {N_cat, N_echo, N_wc, N_pwd, N_exit, N_cd, N_ls}

NonBlank(e) == Strip(e.raw) # <<>>
Parses(e) == NonBlank(e) /\ shlex_split(Strip(e.raw)).err = ""
\* the tokens of a line that parses
Tokens(e) == shlex_split(Strip(e.raw)).tokens
Cmd(e) == ParsedCommand(Head(Tokens(e)), Tail(Tokens(e)))
Ran(e) == e.outcome \in {"returned", "error", "exit"}

\* what processing the line does, from the directory it was read in
Processed(e) == CLIManager_process_command(Strip(e.raw), e.cwd_before, e.ext).res

\* the line's command failed: an exception other than the exit signal, or a
\* non-zero exit code
Failed(e) ==
    /\ NonBlank(e)
    /\ e.outcome # "interrupted"
    /\ LET p == Processed(e)
       IN  \/ p.raised \notin {"", "ExitCommandException"}
           \/ p.raised = "" /\ p.code # 0

\* C1: a line whose command fails (non-zero exit code, parse failure or any
\* other exception) leaves the session running, and the session terminates
\* only by end of input, by the exit command or by a keyboard interrupt.
C1_FailureKeepsSessionRunning ==
    [][ /\ (hist' # hist /\ Failed(LastLine')) => (pc' = "loop" /\ is_running')
        /\ (pc = "loop" /\ pc' = "done") =>
              \/ /\ hist' = hist
                 /\ LastOut'.tag \in {"Session terminated", "Interrupt received"}
              \/ /\ hist' # hist
                 /\ LastLine'.outcome = "interrupted"
                 /\ LastOut'.tag = "Interrupt received"
              \/ /\ hist' # hist
                 /\ Parses(LastLine')
                 /\ Cmd(LastLine').command_name = N_exit
                 /\ LastOut'.tag = "exit received" ]_vars

\* a line that fails to parse and a line whose process cannot be started,
\* and the session still running
C1_Witness ==
    /\ pc = "loop"
    /\ is_running
    /\ Len(hist) = 2
    /\ ~Parses(hist[1]) /\ hist[1].outcome = "error"
    /\ hist[2].outcome = "error" /\ hist[2].cls = "DefaultCommand"

\* C2: a line whose command name is exit prints the closing notice and
\* nothing else, ends the session, and is the last line read; the exit codes
\* printed for the lines before it stay as they were.
C2_ExitTerminatesWithoutExitCode ==
    \A i \in 1..Len(hist) :
        (Parses(hist[i]) /\ Cmd(hist[i]).command_name = N_exit
            /\ hist[i].outcome # "interrupted") =>
            /\ OutOf(i) = <<Notice(i, "exit received")>>
            /\ ExitCodesOf(i) = <<>>
            /\ pc = "done"
            /\ i = Len(hist)
            /\ LastOut = Notice(i, "exit received")
            /\ \A j \in 1..(i - 1) :
                   hist[j].outcome = "returned" =>
                       ExitCodesOf(j) = <<ExitCodeLine(j, hist[j].code)>>

\* exit with an argument, after a line that printed a non-zero exit code
C2_Witness ==
    /\ Len(hist) = 2
    /\ Parses(hist[2])
    /\ Cmd(hist[2]) = ParsedCommand(N_exit, << <<"x">> >>)
    /\ hist[2].outcome = "exit"
    /\ hist[1].outcome = "returned" /\ hist[1].code # 0

\* the line is cd with at most one argument
IsCd(e) == Parses(e) /\ Cmd(e).command_name = N_cd /\ Len(Cmd(e).args) <= 1
\* the directory the cd names: the argument, or the home directory
CdArg(e) == IF Cmd(e).args = <<>> THEN Home ELSE Cmd(e).args[1]
\* what the cd's target is, seen from the directory the line was read in
CdResolved(e) == Resolve(e.cwd_before, CdArg(e))
\* the cd's target is a directory the process may enter
CdTargetOk(e) == CdResolved(e).kind = "dir" /\ CdResolved(e).path \notin NoAccess

\* C3: after a successful cd the command has returned 0 and the session's
\* CLIManager.current_dir is the target directory.
C3_CdSetsManagerCurrentDir ==
    (hist # <<>> /\ IsCd(LastLine) /\ LastLine.outcome = "returned"
        /\ CdTargetOk(LastLine)) =>
        /\ LastLine.code = 0
        /\ has_dir
        /\ Resolve(LastLine.cwd_before, current_dir).path = CdResolved(LastLine).path

\* C4: a cd whose target does not exist or is not a directory returns 1,
\* prints the No such directory diagnostic and leaves the manager's directory
\* and the process working directory as they were.
C4_FailedCdChangesNothing ==
    [][ (hist' # hist /\ IsCd(LastLine') /\ LastLine'.outcome = "returned"
            /\ CdResolved(LastLine').kind # "dir") =>
            /\ LastLine'.code = 1
            /\ PrintedFor(out', Len(hist')) =
                   << DiagLine(Len(hist'), "cd: No such directory", CdArg(LastLine')),
                      ExitCodeLine(Len(hist'), 1) >>
            /\ cwd' = cwd
            /\ has_dir' = has_dir
            /\ current_dir' = current_dir ]_vars

\* a cd that succeeds, then a cd to a missing name
C4_Witness ==
    /\ Len(hist) = 2
    /\ IsCd(hist[1]) /\ hist[1].outcome = "returned" /\ hist[1].code = 0
    /\ hist[2].cwd_before # StartDir
    /\ IsCd(hist[2]) /\ hist[2].outcome = "returned" /\ hist[2].code = 1
    /\ CdResolved(hist[2]).kind = "none"
    /\ cwd = hist[2].cwd_before

IsPwd(e) == Parses(e) /\ Cmd(e).command_name = N_pwd

\* C5: a successful cd <dir> immediately followed by pwd prints <dir>,
\* resolved against the directory the cd was given in and path-normalized.
C5_CdThenPwdPrintsDir ==
    \A i \in 1..(Len(hist) - 1) :
        (IsCd(hist[i]) /\ Len(Cmd(hist[i]).args) = 1
            /\ hist[i].outcome = "returned" /\ hist[i].code = 0
            /\ IsPwd(hist[i + 1]) /\ hist[i + 1].outcome = "returned") =>
            /\ OutOf(i + 1) # <<>>
            /\ OutOf(i + 1)[1].kind = "stdout"
            /\ OutOf(i + 1)[1].text =
                   normpath(path_join(PathStr(hist[i].cwd_before), CdArg(hist[i])))

\* the line's iteration completes normally: the line is not blank, no
\* interrupt arrives, and parsing and the handler return
CompletesNormally(e) ==
    /\ NonBlank(e)
    /\ e.outcome # "interrupted"
    /\ Processed(e).raised = ""

\* C6: a line read by the loop prints exactly one Exit code line if and only
\* if it is not blank and its iteration completes normally, and then with
\* the code the handler returned; a blank line prints nothing and leaves the
\* session running.
C6_ExitCodeLinePerCompletedLine ==
    \A i \in 1..Len(hist) :
        /\ Len(ExitCodesOf(i)) <= 1
        /\ (Len(ExitCodesOf(i)) = 1) <=> CompletesNormally(hist[i])
        /\ CompletesNormally(hist[i]) =>
              /\ ExitCodesOf(i)[1].n =
                     RunCommand(Cmd(hist[i]), None, hist[i].cwd_before, hist[i].ext).code
              /\ OutOf(i)[Len(OutOf(i))] = ExitCodesOf(i)[1]
        /\ ~NonBlank(hist[i]) =>
              /\ OutOf(i) = <<>>
              /\ hist[i].outcome = "blank"
              /\ (i = Len(hist) /\ pc = "done") => LastOut.src = 0

\* a line of blanks, then a line whose handler returned 2
C6_Witness ==
    /\ Len(hist) = 2
    /\ pc = "loop"
    /\ ~NonBlank(hist[1]) /\ hist[1].raw # <<>>
    /\ CompletesNormally(hist[2]) /\ hist[2].code = 2
    /\ Len(out) = 2

C8_FallbackHandlerResult ==
    \A i \in 1..Len(hist) :
        (Parses(hist[i]) /\ Ran(hist[i])
            /\ Cmd(hist[i]).command_name \notin Builtins) =>
            /\ hist[i].cls = "DefaultCommand"
            /\ hist[i].ext.kind = "ran" =>
                  /\ hist[i].outcome = "returned"
                  /\ hist[i].code = hist[i].ext.rc
                  /\ ExitCodesOf(i) = <<ExitCodeLine(i, hist[i].ext.rc)>>
            /\ hist[i].ext.kind = "FileNotFoundError" =>
                  /\ hist[i].outcome = "returned"
                  /\ hist[i].code = 1
                  /\ OutOf(i) = << DiagLine(i, "command not found",
                                            Cmd(hist[i]).command_name),
                                   ExitCodeLine(i, 1) >>

\* the same external command: not found, then exiting 2
C8_Witness ==
    /\ Len(hist) = 2
    /\ \A i \in 1..2 : Parses(hist[i]) /\ Cmd(hist[i]).command_name = <<"f", "o", "o">>
    /\ hist[1].ext.kind = "FileNotFoundError" /\ hist[1].code = 1
    /\ hist[2].ext = [kind |-> "ran", rc |-> 2] /\ hist[2].code = 2

(***************************************************************************)
(* Properties of the parser                                                *)
(***************************************************************************)
\* no quote and no escape character in the line
PlainLine(s) == \A i \in 1..Len(s) : s[i] \notin {SQ, DQ, BS}

\* where the words of a plain line start, and the word starting at i
WordStarts(s) == {i \in 1..Len(s) : s[i] # SP /\ (i = 1 \/ s[i - 1] = SP)}
WordEnd(s, i) == CHOOSE j \in i..Len(s) :
    /\ \A k \in i..j : s[k] # SP
    /\ (j = Len(s) \/ s[j + 1] = SP)
NthStart(s, n) == CHOOSE i \in WordStarts(s) :
    Cardinality({j \in WordStarts(s) : j < i}) = n - 1
\* the blank-separated words of a plain line, in order
Words(s) ==
    [n \in 1..Cardinality(WordStarts(s)) |->
        SubSeq(s, NthStart(s, n), WordEnd(s, NthStart(s, n)))]

\* the line is a plain word of k characters, a blank, and one quoted
\* substring up to the end of the line
OneQuotedArg(s, k) ==
    /\ k >= 1 /\ Len(s) >= k + 3
    /\ \A j \in 1..k : s[j] \notin {SP, SQ, DQ, BS}
    /\ s[k + 1] = SP
    /\ IsQuote(s[k + 2])
    /\ s[Len(s)] = s[k + 2]
    /\ \A j \in (k + 3)..(Len(s) - 1) : s[j] \notin {s[k + 2], BS}

\* C9: parse fails or returns exactly one command, whose name is the first
\* token of the line and whose args are the remaining tokens in order; a
\* quoted substring is one token without its quotes; a line without tokens
\* fails with ParseError, so no ParsedInput without a command is returned.
C9_OneCommandFirstTokenIsName ==
    parsed # NotParsed =>
        LET toks == shlex_split(input) IN
        /\ parsed.raised \in {"", "ParseError", "ValueError"}
        /\ parsed.raised # "" => parsed.commands = <<>>
        /\ parsed.raised = "" =>
              /\ Len(parsed.commands) = 1
              /\ toks.err = "" /\ toks.tokens # <<>>
              /\ parsed.commands[1].command_name = toks.tokens[1]
              /\ Len(parsed.commands[1].args) = Len(toks.tokens) - 1
              /\ \A k \in 1..Len(parsed.commands[1].args) :
                     parsed.commands[1].args[k] = toks.tokens[k + 1]
        /\ (toks.err = "" /\ toks.tokens = <<>>) <=> parsed.raised = "ParseError"
        /\ (\A i \in 1..Len(input) : input[i] = SP) => parsed.raised = "ParseError"
        /\ PlainLine(input) =>
              IF Words(input) = <<>> THEN parsed.raised = "ParseError"
              ELSE /\ parsed.raised = ""
                   /\ <<parsed.commands[1].command_name>> \o parsed.commands[1].args
                          = Words(input)
        /\ \A k \in 1..Len(input) :
              OneQuotedArg(input, k) =>
                  /\ parsed.raised = ""
                  /\ parsed.commands[1] =
                         ParsedCommand(SubSeq(input, 1, k),
                                       <<SubSeq(input, k + 3, Len(input) - 1)>>)

\* a command with two arguments, the second one quoted and empty
C9_Witness ==
    /\ parsed.raised = ""
    /\ Len(input) = MaxLen
    /\ parsed.commands = <<ParsedCommand(<<"a">>, << <<"b">>, <<>> >>)>>

\* the line is not empty and holds only quote characters, each quote closed
OnlyQuotes(s) ==
    /\ s # <<>>
    /\ \A i \in 1..Len(s) : IsQuote(s[i])
    /\ shlex_split(s).err = ""

\* C10: parse of a line of only quote characters or only whitespace raises
\* the empty-command ParseError, and no ParsedCommand with an empty command
\* name is produced.
C10_OnlyQuotesRaisesParseError ==
    parsed # NotParsed =>
        /\ (OnlyQuotes(input) \/ \A i \in 1..Len(input) : input[i] = SP) =>
               (parsed.raised = "ParseError" /\ parsed.msg = "Empty command")
        /\ parsed.raised = "" => parsed.commands[1].command_name # <<>>

\* a handler's execute was called for the line
HandlerCalled(e) == Parses(e) /\ e.cls # ""
\* what the handler's execute does for the line's command
Handled(e) == RunCommand(Cmd(e), None, e.cwd_before, e.ext)

\* C11: the handler's execute returns an integer exit code for every
\* command, arguments, filesystem state and process-spawn outcome; only the
\* exit handler raises, and what it raises is its termination signal.
C11_HandlersReturnExitCode ==
    \A i \in 1..Len(hist) :
        HandlerCalled(hist[i]) =>
            IF Cmd(hist[i]).command_name = N_exit
            THEN Handled(hist[i]).raised = "ExitCommandException"
            ELSE /\ Handled(hist[i]).raised = ""
                 /\ Handled(hist[i]).code \in Nat

\* the line is a cd whose handler ran to its end and whose target is a
\* directory the process may enter
CdSucceeded(e) ==
    /\ HandlerCalled(e)
    /\ Cmd(e).command_name = N_cd
    /\ e.outcome \in {"returned", "interrupted"}
    /\ CdTargetOk(e)

RECURSIVE DirAfter(_)
\* the target of the most recent successful cd among the first i lines, the
\* starting directory if there is none
DirAfter(i) ==
    IF i = 0 THEN StartDir
    ELSE IF CdSucceeded(hist[i]) THEN CdResolved(hist[i]).path
    ELSE DirAfter(i - 1)

\* C12: only a successful cd changes the current directory: every line is
\* run in the directory that is the target of the most recent successful cd
\* before it (the starting directory if there was none), the directory after
\* the last line is that of the most recent successful cd, and the manager
\* holds a directory only if some cd succeeded.
C12_OnlySuccessfulCdChangesDirectory ==
    /\ \A i \in 1..Len(hist) : hist[i].cwd_before = DirAfter(i - 1)
    /\ cwd = DirAfter(Len(hist))
    /\ has_dir => \E i \in 1..Len(hist) : CdSucceeded(hist[i])

\* a successful cd away from the starting directory, then an external
\* command that ran there and left the directory as it was
C12_Witness ==
    /\ Len(hist) = 2
    /\ CdSucceeded(hist[1])
    /\ CdResolved(hist[1]).path # StartDir
    /\ hist[2].cls = "DefaultCommand"
    /\ hist[2].outcome = "returned"
    /\ hist[2].cwd_before = CdResolved(hist[1]).path
    /\ cwd = hist[2].cwd_before

====
